---- MODULE Spec2Model ----
(***************************************************************************)
(* A model of server.js of pm2-web-manager: the session gate, the login    *)
(* and logout routes, the readiness flag of the PM2 connection, the        *)
(* protected /api routes with their PM2 callbacks, the path check of       *)
(* /api/start and /api/browse, and the log stream of /api/logs/:id.        *)
(*                                                                         *)
(* A JavaScript string is a sequence of one-character strings, so that     *)
(* path.resolve and String.prototype.startsWith work on characters.        *)
(*                                                                         *)
(* The requests modelled are those the application-wide middleware hands   *)
(* on to the routes: within the rate limit, with a body that parses and    *)
(* string-valued fields. PM2 and the disk are the environment: PM2 answers *)
(* each call once, with or without an error.                               *)
(***************************************************************************)
EXTENDS Naturals, Sequences, FiniteSets, TLC

\* ------------------------------------------------------------------ bounds
\* Requests whose PM2 callback or log stream is still outstanding.
MaxInFlight == 2

\* ----------------------------------------------------------- configuration
\* undefined: a body field or query parameter the client did not send.
Missing == <<"undefined">>
\* BASE_DIR, a two-segment absolute directory ("/h/o" for '/home/omega').
BASE_DIR == <<"/", "h", "/", "o">>
ADMIN_USER == <<"a", "d", "m">>
ADMIN_PASSWORD == <<"p", "w">>

\* ------------------------------------------------------------ path (node)
Sep == "/"
Dot == <<".">>
DotDot == <<".", ".">>

FirstSep(s) ==
    IF \E i \in 1..Len(s) : s[i] = Sep
    THEN CHOOSE i \in 1..Len(s) : s[i] = Sep /\ \A j \in 1..(i - 1) : s[j] # Sep
    ELSE Len(s) + 1

RECURSIVE SplitPath(_)
\* The segments of s between separators, empty segments dropped.
SplitPath(s) ==
    IF s = <<>> THEN <<>>
    ELSE LET k == FirstSep(s)
         IN  (IF k > 1 THEN <<SubSeq(s, 1, k - 1)>> ELSE <<>>)
             \o SplitPath(SubSeq(s, k + 1, Len(s)))

RECURSIVE NormalizeSegs(_, _)
\* normalizeString of an absolute path: "." is dropped, ".." removes the
\* segment before it and is dropped at the root.
NormalizeSegs(segs, acc) ==
    IF segs = <<>> THEN acc
    ELSE LET h == Head(segs)
         IN  NormalizeSegs(Tail(segs),
                 IF h = Dot THEN acc
                 ELSE IF h = DotDot
                      THEN (IF acc = <<>> THEN acc ELSE SubSeq(acc, 1, Len(acc) - 1))
                      ELSE Append(acc, h))

RECURSIVE JoinSegs(_)
JoinSegs(segs) ==
    IF segs = <<>> THEN <<>> ELSE <<Sep>> \o Head(segs) \o JoinSegs(Tail(segs))

IsAbsolute(p) == Len(p) > 0 /\ p[1] = Sep

\* path.resolve(base, p) for an absolute base: an absolute p replaces the
\* base, an empty p is skipped, the result is normalized and has no trailing
\* separator.
PathResolve(base, p) ==
    LET joined == IF IsAbsolute(p) THEN p
                  ELSE IF p = <<>> THEN base
                  ELSE base \o <<Sep>> \o p
        segs == NormalizeSegs(SplitPath(joined), <<>>)
    IN  IF segs = <<>> THEN <<Sep>> ELSE JoinSegs(segs)

\* String.prototype.startsWith
StartsWith(s, prefix) ==
    Len(prefix) <= Len(s) /\ SubSeq(s, 1, Len(prefix)) = prefix

\* -------------------------------------------------------------- the disk
LOG_OUT == <<"/", "l", "/", "o">>
LOG_ERR == <<"/", "l", "/", "e">>
P_a == BASE_DIR \o <<"/", "a">>
P_d == BASE_DIR \o <<"/", "d">>
P_p == BASE_DIR \o <<"/", "p">>
P_evil == BASE_DIR \o <<"-", "e">>
P_evil_a == P_evil \o <<"/", "a">>
P_x == <<"/", "x">>

\* What the disk holds when the server starts: a script a, a directory d and
\* an unreadable directory p under the base, a sibling directory whose name
\* extends the base's name, a file outside, and the stdout log of a process.
DiskImage ==
    (<<Sep>> :> "dir") @@ (<<"/", "h">> :> "dir") @@ (BASE_DIR :> "dir")
    @@ (P_a :> "file") @@ (P_d :> "dir") @@ (P_p :> "denied")
    @@ (P_evil :> "dir") @@ (P_evil_a :> "file") @@ (P_x :> "file")
    @@ (LOG_OUT :> "file") @@ (LOG_ERR :> "absent")

LogKinds == {"absent", "file", "denied"}

\* ------------------------------------------------------------ the inputs
Sessions == {"s1"}
Usernames == {ADMIN_USER, <<"e", "v", "e">>}
Passwords == {ADMIN_PASSWORD, Missing}
ProcIds == {"0"}
LogTypes == {"out", "err"}
ScriptInputs ==
    { Missing, <<"a">>, <<"n">>, <<".", ".", "/", "o", "-", "e", "/", "a">>, P_x }
NameInputs == { Missing, <<"n">> }
DirInputs ==
    { Missing, <<"p">>, <<"n">>, <<".", ".">>, <<".", ".", "/", "o", "-", "e">> }

VARIABLES
    loggedIn,   \* req.session.loggedIn of each client's session in the store
    authHist,   \* history: a login on the session was answered 200, and no logout since
    pm2Ready,   \* let pm2Ready
    proc,       \* the server process: "running" or how it ended
    inflight,   \* requests waiting for a PM2 callback or streaming a log
    fsys,       \* the disk: path -> kind
    last        \* what the latest handler step did and answered

vars == <<loggedIn, authHist, pm2Ready, proc, inflight, fsys, last>>

Slots == 1..MaxInFlight

\* A request in flight is the closure PM2 will call back, or the log stream
\* piped into the response: what it still knows of the request.
Idle == [phase |-> "idle", op |-> "none", type |-> "none", calls |-> 0, piped |-> FALSE]

NoEv == [route |-> "none", step |-> "none", sess |-> "none", input |-> <<>>,
         status |-> 0, body |-> "none", reached |-> FALSE, authed |-> FALSE,
         flag |-> FALSE, ready |-> FALSE, calls |-> 0, op |-> "none",
         target |-> "none", path |-> <<>>, trace |-> <<>>, sup |-> "none",
         kind |-> "none"]

Init ==
    /\ loggedIn = [s \in Sessions |-> FALSE]
    /\ authHist = [s \in Sessions |-> FALSE]
    /\ pm2Ready = FALSE
    /\ proc = "running"
    /\ inflight = [i \in Slots |-> Idle]
    /\ fsys = DiskImage
    /\ last = NoEv

\* ------------------------------------------------------------- helpers
Kind(p) == IF p \in DOMAIN fsys THEN fsys[p] ELSE "absent"

\* fs.existsSync: true for anything that is there, readable or not.
ExistsSync(p) == Kind(p) # "absent"

\* !x of a string field: undefined and '' are falsy.
Falsy(x) == x = Missing \/ x = <<>>

\* A login that tests the password alone.
LoginOkPasswordOnly(u, p) == p = ADMIN_PASSWORD

\* username === ADMIN_USER && password === ADMIN_PASSWORD
LoginOk(u, p) == u = ADMIN_USER /\ p = ADMIN_PASSWORD

\* req.session.destroy with the default MemoryStore: the entry is deleted and
\* the callback gets no error.
SessionDestroy(store, s) == [store EXCEPT ![s] = FALSE]

\* A gate that lets every request through.
RequireAuthOpen(s) == TRUE

\* requireAuth: next() iff req.session.loggedIn
RequireAuth(s) == loggedIn[s]

\* A wrapper that does not look at the flag.
NotReadyIgnored == FALSE

\* withPM2: if (!pm2Ready) return 503
NotReady == ~pm2Ready

\* scriptPath.startsWith(path.resolve(BASE_DIR))
PathAllowed(p) == StartsWith(p, PathResolve(BASE_DIR, <<>>))

\* !fs.existsSync(scriptPath) || !scriptPath.startsWith(...): the calls made
\* on the path, in order, and whether the path is let through.
StartChecks(p) ==
    IF ~ExistsSync(p) THEN [allowed |-> FALSE, trace |-> <<"existsSync">>]
    ELSE [allowed |-> PathAllowed(p), trace |-> <<"existsSync", "startsWith">>]

\* action.replace('All', '')
Pm2Action(action) == IF action = "restartAll" THEN "restart" ELSE "stop"

\* res.json({ ok: !err, error: err ? String(err) : null })
ActionBody(err) == IF err THEN "ok:false,error:text" ELSE "ok:true,error:null"

\* A callback that makes the call again when PM2 reports an error.
AfterCallbackRetry(r, err) == IF err THEN [r EXCEPT !.calls = 2] ELSE Idle

\* What is left of a request once its PM2 callback has answered: nothing, the
\* call is not made again.
AfterCallback(r, err) == Idle

\* desc[0].pm2_env.pm_err_log_path or pm_out_log_path
LogPath(type) == IF type = "err" THEN LOG_ERR ELSE LOG_OUT

HasFree == \E i \in Slots : inflight[i] = Idle
FreeSlot == CHOOSE i \in Slots : inflight[i] = Idle /\ \A j \in 1..(i - 1) : inflight[j] # Idle

Pending(op, type) ==
    [Idle EXCEPT !.phase = "pm2", !.op = op, !.type = type, !.calls = 1]

\* The record of a request as it arrives at its route.
Req(route, s, input) ==
    [NoEv EXCEPT !.route = route, !.step = "request", !.sess = s, !.input = input,
                 !.authed = authHist[s], !.flag = loggedIn[s], !.ready = pm2Ready]

Answer(ev, status, body) == [ev EXCEPT !.status = status, !.body = body]

\* The record of a callback of request r.
Cb(r, step, sup) ==
    [NoEv EXCEPT !.route = r.op, !.step = step, !.reached = TRUE, !.ready = pm2Ready,
                 !.calls = r.calls, !.sup = sup, !.input = <<r.type>>]

\* ---------------------------------------------------- login and logout
Login(s, u, p) ==
    /\ proc = "running"
    /\ loggedIn' = IF LoginOk(u, p) THEN [loggedIn EXCEPT ![s] = TRUE] ELSE loggedIn
    /\ authHist' = IF LoginOk(u, p) THEN [authHist EXCEPT ![s] = TRUE] ELSE authHist
    /\ last' = Answer(Req("login", s, <<u, p>>),
                      IF LoginOk(u, p) THEN 200 ELSE 401,
                      IF LoginOk(u, p) THEN "ok:true" ELSE "ok:false")
    /\ UNCHANGED <<pm2Ready, proc, inflight, fsys>>

Logout(s) ==
    /\ proc = "running"
    /\ loggedIn' = SessionDestroy(loggedIn, s)
    /\ authHist' = [authHist EXCEPT ![s] = FALSE]
    /\ last' = Answer(Req("logout", s, <<>>), 200, "ok:true")
    /\ UNCHANGED <<pm2Ready, proc, inflight, fsys>>

\* cookie: { maxAge: 24 * 60 * 60 * 1000 }: a day after it was last saved the
\* session is gone from the store, with no logout.
Expire(s) ==
    /\ proc = "running"
    /\ loggedIn[s]
    /\ loggedIn' = [loggedIn EXCEPT ![s] = FALSE]
    /\ last' = [NoEv EXCEPT !.route = "expire", !.sess = s]
    /\ UNCHANGED <<authHist, pm2Ready, proc, inflight, fsys>>

\* ------------------------------------------------- the PM2 connection
Halt(cause, ev) ==
    /\ proc' = cause
    /\ pm2Ready' = FALSE
    /\ loggedIn' = [s \in Sessions |-> FALSE]
    /\ authHist' = [s \in Sessions |-> FALSE]
    /\ inflight' = [i \in Slots |-> Idle]
    /\ last' = ev
    /\ UNCHANGED fsys

ConnectOk ==
    /\ proc = "running" /\ ~pm2Ready
    /\ pm2Ready' = TRUE
    /\ UNCHANGED <<loggedIn, authHist, proc, inflight, fsys, last>>

ConnectFail ==
    /\ proc = "running" /\ ~pm2Ready
    /\ Halt("exit2", [NoEv EXCEPT !.route = "exit"])

Sigint ==
    /\ proc = "running"
    /\ Halt("sigint", [NoEv EXCEPT !.route = "exit"])

\* ------------------------------------------------- the gate of /api
\* requireAuth answers 401; nothing else runs.
Unauthorized(route, s, input) ==
    /\ ~RequireAuth(s)
    /\ last' = Answer(Req(route, s, <<>>), 401, "unauthorized")
    /\ UNCHANGED <<loggedIn, authHist, pm2Ready, proc, inflight, fsys>>

\* withPM2 answers 503; fn is not called.
Unavailable(route, s, input) ==
    /\ RequireAuth(s)
    /\ NotReady
    /\ last' = Answer([Req(route, s, <<>>) EXCEPT !.reached = TRUE], 503, "notready")
    /\ UNCHANGED <<loggedIn, authHist, pm2Ready, proc, inflight, fsys>>

\* fn calls a PM2 operation and returns; the callback comes later.
Forward(route, s, input, fn, op, target, type, path, trace) ==
    /\ HasFree
    /\ inflight' = [inflight EXCEPT ![FreeSlot] = Pending(fn, type)]
    /\ last' = [Req(route, s, input) EXCEPT !.reached = TRUE, !.calls = 1, !.op = op,
                    !.target = target, !.path = path, !.trace = trace]
    /\ UNCHANGED <<loggedIn, authHist, pm2Ready, proc, fsys>>

\* The route answers at once.
Reply(route, s, input, status, body, path, trace) ==
    /\ last' = Answer([Req(route, s, input) EXCEPT !.reached = TRUE, !.path = path,
                           !.trace = trace], status, body)
    /\ UNCHANGED <<loggedIn, authHist, pm2Ready, proc, inflight, fsys>>

\* ------------------------------------------------- the protected routes
\* GET /api/processes
Processes(s) ==
    /\ proc = "running"
    /\ \/ Unauthorized("processes", s, <<>>)
       \/ Unavailable("processes", s, <<>>)
       \/ /\ RequireAuth(s) /\ ~NotReady
          /\ Forward("processes", s, <<>>, "list", "list", "none", "none", <<>>, <<"pm2.list">>)

\* POST /api/start
Start(s, script, name) ==
    /\ proc = "running"
    /\ LET input == <<script, name>>
           scriptPath == PathResolve(BASE_DIR, script)
           checks == StartChecks(scriptPath)
       IN  \/ Unauthorized("start", s, input)
           \/ Unavailable("start", s, input)
           \/ /\ RequireAuth(s) /\ ~NotReady
              /\ Falsy(script) \/ Falsy(name)
              /\ Reply("start", s, input, 400, "required", <<>>, <<>>)
           \/ /\ RequireAuth(s) /\ ~NotReady
              /\ ~Falsy(script) /\ ~Falsy(name)
              /\ ~checks.allowed
              /\ Reply("start", s, input, 403, "not allowed", scriptPath, checks.trace)
           \/ /\ RequireAuth(s) /\ ~NotReady
              /\ ~Falsy(script) /\ ~Falsy(name)
              /\ checks.allowed
              /\ Forward("start", s, input, "start", "start", "script", "none", scriptPath,
                         Append(checks.trace, "pm2.start"))

\* POST /api/restart/:id, POST /api/stop/:id, DELETE /api/delete/:id
Action(s, action, id) ==
    /\ proc = "running"
    /\ \/ Unauthorized(action, s, <<id>>)
       \/ Unavailable(action, s, <<id>>)
       \/ /\ RequireAuth(s) /\ ~NotReady
          /\ Forward(action, s, <<id>>, "action", action, id, "none", <<>>, <<"pm2.action">>)

\* POST /api/restartAll, POST /api/stopAll
GlobalAction(s, action) ==
    /\ proc = "running"
    /\ \/ Unauthorized(action, s, <<>>)
       \/ Unavailable(action, s, <<>>)
       \/ /\ RequireAuth(s) /\ ~NotReady
          /\ Forward(action, s, <<>>, "action", Pm2Action(action), "all", "none", <<>>,
                     <<"pm2.action">>)

\* GET /api/logs/:id
Logs(s, id, type) ==
    /\ proc = "running"
    /\ \/ Unauthorized("logs", s, <<id, type>>)
       \/ Unavailable("logs", s, <<id, type>>)
       \/ /\ RequireAuth(s) /\ ~NotReady
          /\ Forward("logs", s, <<id, type>>, "describe", "describe", id, type, <<>>,
                     <<"pm2.describe">>)

\* GET /api/browse: withPM2 is not used, pm2Ready is not read.
Browse(s, dir) ==
    /\ proc = "running"
    /\ LET reqDir == IF Falsy(dir) THEN <<>> ELSE dir
           currentDir == PathResolve(BASE_DIR, reqDir)
       IN  \/ Unauthorized("browse", s, <<dir>>)
           \/ /\ RequireAuth(s)
              /\ ~PathAllowed(currentDir)
              /\ Reply("browse", s, <<dir>>, 403, "denied", currentDir, <<"startsWith">>)
           \/ /\ RequireAuth(s)
              /\ PathAllowed(currentDir)
              /\ Kind(currentDir) = "dir"
              /\ Reply("browse", s, <<dir>>, 200, "listing", currentDir,
                       <<"startsWith", "readdirSync">>)
           \/ /\ RequireAuth(s)
              /\ PathAllowed(currentDir)
              /\ Kind(currentDir) # "dir"
              \* readdirSync throws; the catch answers
              /\ Reply("browse", s, <<dir>>, 500, "could not read", currentDir,
                       <<"startsWith", "readdirSync">>)

\* ------------------------------------------------------ PM2 callbacks
Done(i, ev) ==
    /\ inflight' = [inflight EXCEPT ![i] = Idle]
    /\ last' = ev
    /\ UNCHANGED <<loggedIn, authHist, pm2Ready, proc, fsys>>

\* pm2.list((err, list) => ...)
ListCallback(i, err) ==
    /\ proc = "running"
    /\ inflight[i].phase = "pm2" /\ inflight[i].op = "list"
    /\ Done(i, IF err THEN Answer(Cb(inflight[i], "callback", "err"), 500, "error")
               ELSE Answer(Cb(inflight[i], "callback", "ok"), 200, "list"))

\* pm2.start({...}, (err, proc) => ...)
StartCallback(i, err) ==
    /\ proc = "running"
    /\ inflight[i].phase = "pm2" /\ inflight[i].op = "start"
    /\ Done(i, IF err THEN Answer(Cb(inflight[i], "callback", "err"), 500, "error")
               ELSE Answer(Cb(inflight[i], "callback", "ok"), 200, "ok:true,pid,id"))

\* pm2[action](id, err => res.json({ ok: !err, error: ... }))
ActionCallback(i, err) ==
    /\ proc = "running"
    /\ inflight[i].phase = "pm2" /\ inflight[i].op = "action"
    /\ inflight' = [inflight EXCEPT ![i] = AfterCallback(inflight[i], err)]
    /\ last' = Answer(Cb(inflight[i], "callback", IF err THEN "err" ELSE "ok"),
                      200, ActionBody(err))
    /\ UNCHANGED <<loggedIn, authHist, pm2Ready, proc, fsys>>

\* pm2.describe(id, (err, desc) => ...): desc is an error, an empty list or a
\* description with the two log paths.
DescribeCallback(i, sup) ==
    /\ proc = "running"
    /\ inflight[i].phase = "pm2" /\ inflight[i].op = "describe"
    /\ LET r == inflight[i]
           logPath == LogPath(r.type)
           ev == [Cb(r, "callback", sup) EXCEPT !.path = logPath, !.kind = Kind(logPath)]
       IN  \/ /\ sup \in {"err", "empty"}
              /\ Done(i, Answer([ev EXCEPT !.path = <<>>, !.kind = "none"], 404, "not found"))
           \/ /\ sup = "desc"
              /\ ~ExistsSync(logPath)
              /\ Done(i, Answer([ev EXCEPT !.trace = <<"existsSync">>], 200, "placeholder"))
           \/ /\ sup = "desc"
              /\ ExistsSync(logPath)
              \* fs.createReadStream(logPath); res.type('text/plain'); stream.pipe(res)
              /\ inflight' = [inflight EXCEPT ![i] = [r EXCEPT !.phase = "opening",
                                                                !.piped = TRUE]]
              /\ last' = [ev EXCEPT !.trace = <<"existsSync", "createReadStream">>]
              /\ UNCHANGED <<loggedIn, authHist, pm2Ready, proc, fsys>>

\* ------------------------------------------------------ the log stream
\* The stream holds an open file descriptor.
HandleOpen(i) == proc = "running" /\ inflight[i].phase = "open"

\* The stream's fs.open completes. A failure is an 'error' event on the
\* stream; nothing listens for it, so it is thrown as an uncaught exception
\* and the process ends.
StreamOpen(i) ==
    /\ proc = "running"
    /\ inflight[i].phase = "opening"
    /\ LET r == inflight[i]
           logPath == LogPath(r.type)
           ev == [Cb(r, "stream", "desc") EXCEPT !.path = logPath, !.kind = Kind(logPath)]
       IN  \/ /\ Kind(logPath) = "file"
              /\ inflight' = [inflight EXCEPT ![i].phase = "open"]
              /\ UNCHANGED <<loggedIn, authHist, pm2Ready, proc, fsys, last>>
           \/ /\ Kind(logPath) # "file"
              /\ Halt("crashed", Answer(ev, 0, "uncaught exception"))

\* A chunk is read and written to the response; the first write sends the
\* headers, 200 text/plain. More of the file may follow.
StreamData(i) ==
    /\ proc = "running"
    /\ inflight[i].phase = "open" /\ inflight[i].piped
    /\ UNCHANGED inflight
    /\ last' = Answer([Cb(inflight[i], "stream", "desc") EXCEPT
                           !.path = LogPath(inflight[i].type)], 200, "text/plain chunk")
    /\ UNCHANGED <<loggedIn, authHist, pm2Ready, proc, fsys>>

\* End of file: the stream closes its descriptor (autoClose) and pipe ends
\* the response.
StreamEnd(i) ==
    /\ proc = "running"
    /\ inflight[i].phase = "open" /\ inflight[i].piped
    /\ Done(i, Answer([Cb(inflight[i], "stream", "desc") EXCEPT
                           !.path = LogPath(inflight[i].type)], 200, "text/plain end"))

\* The client goes away: the response emits 'close', pipe's handler unpipes
\* the stream, and a stream with no destination is paused. Nothing destroys
\* it.
ClientClose(i) ==
    /\ proc = "running"
    /\ inflight[i].phase \in {"opening", "open"} /\ inflight[i].piped
    /\ inflight' = [inflight EXCEPT ![i].piped = FALSE]
    /\ UNCHANGED <<loggedIn, authHist, pm2Ready, proc, fsys, last>>

\* ------------------------------------------------------ the environment
\* The stdout log is written, removed or made unreadable by others.
FsChange(k) ==
    /\ proc = "running"
    /\ k # fsys[LOG_OUT]
    /\ fsys' = [fsys EXCEPT ![LOG_OUT] = k]
    /\ UNCHANGED <<loggedIn, authHist, pm2Ready, proc, inflight, last>>

Next ==
    \/ ConnectOk
    \/ ConnectFail
    \/ Sigint
    \/ \E s \in Sessions, u \in Usernames, p \in Passwords : Login(s, u, p)
    \/ \E s \in Sessions : Logout(s)
    \/ \E s \in Sessions : Expire(s)
    \/ \E s \in Sessions : Processes(s)
    \/ \E s \in Sessions, script \in ScriptInputs, name \in NameInputs : Start(s, script, name)
    \/ \E s \in Sessions, a \in {"restart", "stop", "delete"}, id \in ProcIds : Action(s, a, id)
    \/ \E s \in Sessions, a \in {"restartAll", "stopAll"} : GlobalAction(s, a)
    \/ \E s \in Sessions, id \in ProcIds, type \in LogTypes : Logs(s, id, type)
    \/ \E s \in Sessions, dir \in DirInputs : Browse(s, dir)
    \/ \E i \in Slots, err \in BOOLEAN : ListCallback(i, err)
    \/ \E i \in Slots, err \in BOOLEAN : StartCallback(i, err)
    \/ \E i \in Slots, err \in BOOLEAN : ActionCallback(i, err)
    \/ \E i \in Slots, sup \in {"err", "empty", "desc"} : DescribeCallback(i, sup)
    \/ \E i \in Slots : StreamOpen(i)
    \/ \E i \in Slots : StreamData(i)
    \/ \E i \in Slots : StreamEnd(i)
    \/ \E i \in Slots : ClientClose(i)
    \/ \E k \in LogKinds : FsChange(k)

Spec == Init /\ [][Next]_vars

\* The event loop runs every completed file operation of a stream, and a
\* file that keeps being read comes to its end.
FairSpec ==
    /\ Spec
    /\ \A i \in Slots :
          WF_vars(StreamOpen(i)) /\ WF_vars(StreamData(i)) /\ SF_vars(StreamEnd(i))

\* ================================================================ claims
Protected == {"processes", "start", "restart", "stop", "delete", "restartAll",
              "stopAll", "logs", "browse"}
UsesPM2 == Protected \ {"browse"}
Mutating == {"restart", "stop", "delete", "restartAll", "stopAll"}
FsOps == {"existsSync", "readdirSync", "pm2.start"}
AtRoute(routes) == last.step = "request" /\ last.route \in routes

\* Inside the base directory: the base itself or a path below it at a
\* separator.
Within(base, p) == p = base \/ StartsWith(p, base \o <<Sep>>)

\* C1: a request to a protected route gets past the gate only on a session
\* whose last successful login has not been followed by a logout; otherwise
\* it is answered 401 and neither PM2 nor the disk is touched. The request
\* for /api/processes that follows a logout on the session is answered 401.
C1_AuthGate ==
    /\ [](AtRoute(Protected) =>
            /\ last.reached => (last.flag /\ last.authed)
            /\ ~last.authed => /\ last.status = 401
                               /\ ~last.reached
                               /\ last.calls = 0 /\ last.op = "none"
                               /\ last.trace = <<>>)
    /\ [][(/\ last.route = "logout" /\ last.status = 200
           /\ last'.step = "request" /\ last'.route = "processes"
           /\ last'.sess = last.sess)
          => last'.status = 401]_vars

\* A request was forwarded to PM2 while logged in and is still in flight; the
\* session has since logged out and its request for the list is answered 401.
C1_Witness ==
    /\ \E i \in Slots : inflight[i].phase = "pm2"
    /\ AtRoute({"processes"}) /\ last.status = 401 /\ pm2Ready

\* C2: POST /login answers 200 and marks the session exactly when username
\* and password both equal the configured ones; otherwise it answers 401 and
\* the session's flag is what it was.
C2_Login ==
    last.route = "login" =>
        /\ last.status \in {200, 401}
        /\ last.status = 200 <=> (last.input[1] = ADMIN_USER /\ last.input[2] = ADMIN_PASSWORD)
        /\ last.status = 200 => loggedIn[last.sess]
        /\ last.status = 401 => loggedIn[last.sess] = last.flag

\* The right username with no password, on a session that is not logged in.
C2_Witness ==
    /\ last.route = "login" /\ last.status = 401
    /\ last.input = <<ADMIN_USER, Missing>>
    /\ ~last.flag /\ ~loggedIn[last.sess]

\* C3: a path given to /api/start or /api/browse passes the path check only
\* if it resolves to the base directory or below it at a segment boundary.
C3_Containment ==
    (AtRoute({"start", "browse"}) /\ last.path # <<>> /\ last.status # 403)
        => Within(BASE_DIR, last.path)

\* C4: an authenticated POST /api/start while PM2 is ready answers 400
\* without calling pm2.start when script or name is missing, 403 without
\* calling it when the script resolves outside the base directory or does not
\* exist, and calls pm2.start only for a script inside the base that exists.
C4_StartValidation ==
    (AtRoute({"start"}) /\ last.flag /\ last.ready) =>
        LET script == last.input[1]
            name == last.input[2]
            missing == Falsy(script) \/ Falsy(name)
            resolved == PathResolve(BASE_DIR, script)
            good == Within(BASE_DIR, resolved) /\ ExistsSync(resolved)
        IN  /\ missing => (last.status = 400 /\ last.calls = 0)
            /\ (~missing /\ ~good) => (last.status = 403 /\ last.calls = 0)
            /\ last.calls > 0 => (~missing /\ good /\ last.op = "start")

\* C5 as stated: until the PM2 connection succeeds every authenticated request
\* to every protected route, /api/browse included, is answered 503 before
\* anything else is done.
C5_NotReadyAllRoutes ==
    (AtRoute(Protected) /\ last.flag /\ ~last.ready) =>
        (last.status = 503 /\ last.calls = 0 /\ last.trace = <<>>)

\* C5 as amended: until the PM2 connection succeeds every authenticated
\* request to a route that uses PM2 (list, start, restart, stop, delete,
\* restartAll, stopAll, logs) is answered 503 before any validation, and no
\* PM2 operation is outstanding; /api/browse does not read the flag and is
\* answered from the disk.
C5_NotReady ==
    /\ (AtRoute(UsesPM2) /\ last.flag /\ ~last.ready) =>
          (last.status = 503 /\ last.calls = 0 /\ last.op = "none" /\ last.trace = <<>>)
    /\ ~pm2Ready => \A i \in Slots : inflight[i] = Idle
    /\ (AtRoute({"browse"}) /\ last.flag) => last.status \in {200, 403, 500}

\* An authenticated start request with a valid script is answered 503 before
\* the connection is up.
C5_Witness ==
    /\ AtRoute({"start"}) /\ last.flag /\ ~last.ready /\ last.status = 503
    /\ ~pm2Ready /\ proc = "running"

\* C6: once describe has called back for GET /api/logs/:id, exactly one of
\* three things happens: 404 when describe failed or was empty, a 200
\* placeholder when the chosen log file is not there, and otherwise the file
\* streamed as 200 text/plain.
C6_LogOutcomes ==
    (last.route = "describe" /\ last.step \in {"callback", "stream"}) =>
        \/ last.sup \in {"err", "empty"} /\ last.status = 404
        \/ last.sup = "desc" /\ last.kind = "absent"
              /\ last.status = 200 /\ last.body = "placeholder"
        \/ last.sup = "desc" /\ last.kind # "absent"
              /\ \/ last.status = 0 /\ last.body = "none"
                 \/ last.status = 200 /\ last.body \in {"text/plain chunk", "text/plain end"}

\* C7: in /api/start and /api/browse every access to the disk through the
\* resolved path (existence probe, directory listing, handing the script to
\* PM2) comes after the containment check and is on a path inside the base.
C7_CheckBeforeAccess ==
    AtRoute({"start", "browse"}) =>
        \A k \in 1..Len(last.trace) :
            last.trace[k] \in FsOps =>
                /\ \E j \in 1..(k - 1) : last.trace[j] = "startsWith"
                /\ Within(BASE_DIR, last.path)

\* C8: a failing read in /api/browse or in the log stream of /api/logs/:id is
\* answered with a read-failure response and never ends the server.
C8_FsFailuresAnswered ==
    /\ proc # "crashed"
    /\ (AtRoute({"browse"}) /\ last.trace = <<"startsWith", "readdirSync">>
            /\ Kind(last.path) # "dir") => last.status = 500

\* C9: every descriptor opened for a log stream is eventually closed, also
\* when the client goes away first.
C9_HandlesReleased == \A i \in Slots : HandleOpen(i) ~> ~HandleOpen(i)

\* C10: an authenticated restart, stop, delete, restartAll or stopAll while
\* PM2 is ready makes one call of the PM2 operation of that name (target
\* 'all' for the two global ones), the call is not repeated, and its callback
\* answers once: 200 with ok true and error null, or ok false with the text.
C10_SingleCall ==
    /\ \A i \in Slots : inflight[i].phase = "pm2" => inflight[i].calls = 1
    /\ (AtRoute(Mutating) /\ last.flag /\ last.ready) =>
          /\ last.calls = 1 /\ last.status = 0
          /\ last.op = (IF last.route \in {"restartAll", "stopAll"}
                        THEN Pm2Action(last.route) ELSE last.route)
          /\ last.target = (IF last.route \in {"restartAll", "stopAll"}
                            THEN "all" ELSE last.input[1])
    /\ (last.step = "callback" /\ last.route = "action") =>
          /\ last.calls = 1
          /\ last.sup = "ok" => (last.status = 200 /\ last.body = "ok:true,error:null")
          /\ last.sup = "err" => last.body = "ok:false,error:text"

\* PM2 has reported an error for one request and this was answered, while
\* another mutating request is still waiting for its callback.
C10_Witness ==
    /\ last.step = "callback" /\ last.route = "action" /\ last.sup = "err"
    /\ last.status = 200
    /\ \E i \in Slots : inflight[i].phase = "pm2" /\ inflight[i].op = "action"

====
